---------------------------- MODULE Spec2Model ----------------------------
(***************************************************************************)
(* A model of the online_retail_II workflow: the Record Cleaner            *)
(* (retail_cleaning.py: cleaning_main and the Description Reconciler it    *)
(* calls), the issue classifier (__map_item_issues_to_groupings) and the   *)
(* RFM scorer (retail_modelling.py: __RFM_identification).                 *)
(*                                                                         *)
(* Text values are sequences of one-character strings, so that the string  *)
(* operations of the code (upper, lower, isupper, strip, contains,         *)
(* replace) are computed rather than assumed.  A missing value (pandas     *)
(* NaN) in a text column is the one-element sequence NaN, which no text    *)
(* can equal because every element of a text is a single character.        *)
(***************************************************************************)
EXTENDS Integers, Sequences, FiniteSets, TLC

VARIABLES
    source,        \* the caller's table handed to cleaning_main
    dataframe,     \* cleaning_main's working table (local name `dataframe`)
    items,         \* (StockCode, Description, Quantity) totals, line 191
    duplicates,    \* the duplicate-description groups
    issues,        \* the classified issue annotations, lines 198-200
    pc,            \* position inside cleaning_main
    run,           \* 1: first call, 2: the call on the first call's result
    error,         \* the exception that ended cleaning_main, or "none"
    firstResult,   \* the table the first call returned
    cl_text,       \* classifier: the Description being classified
    cl_lower,      \* classifier: its Description_Lower
    cl_category,   \* classifier: its IssueCategory
    cl_flag,       \* classifier: its IssueWithItem
    cl_k,          \* classifier: how many (classification, term) pairs are done
    recency,       \* RFM scorer: the `recency` frame, by Customer ID
    frequency,     \* RFM scorer: the `frequency` frame, by Customer ID
    monetary,      \* RFM scorer: the `monetary` frame, by Customer ID
    customer_rfm,  \* RFM scorer: the merged frame, by Customer ID
    rfm_pc,        \* RFM scorer: position inside __RFM_identification
    rfm_k,         \* RFM scorer: the next segment assignment (lines 105-117)
    main_pc,       \* pipeline: position inside retail_main.main
    files          \* pipeline: the files written so far

cleanVars == <<source, dataframe, items, duplicates, issues, pc, run, error, firstResult>>
classVars == <<cl_text, cl_lower, cl_category, cl_flag, cl_k>>
rfmVars == <<recency, frequency, monetary, customer_rfm, rfm_pc, rfm_k>>
mainVars == <<main_pc, files>>
vars == <<source, dataframe, items, duplicates, issues, pc, run, error, firstResult,
          cl_text, cl_lower, cl_category, cl_flag, cl_k,
          recency, frequency, monetary, customer_rfm, rfm_pc, rfm_k,
          main_pc, files>>

-----------------------------------------------------------------------------
(* Text: Python str operations on sequences of characters.                 *)

NaN == <<"NaN">>

NaNCategory == "NaN"

IsNa(s) == s = NaN

LowerLetters == <<"a", "b", "c", "d", "e", "f", "g", "h", "i", "j", "k", "l", "m",
                  "n", "o", "p", "q", "r", "s", "t", "u", "v", "w", "x", "y", "z">>

UpperLetters == <<"A", "B", "C", "D", "E", "F", "G", "H", "I", "J", "K", "L", "M",
                  "N", "O", "P", "Q", "R", "S", "T", "U", "V", "W", "X", "Y", "Z">>

LowerSet == {LowerLetters[i] : i \in 1..Len(LowerLetters)}

UpperSet == {UpperLetters[i] : i \in 1..Len(UpperLetters)}

IsLowerChar(c) == c \in LowerSet

IsUpperChar(c) == c \in UpperSet

UpperOf == [c \in LowerSet |-> UpperLetters[CHOOSE i \in 1..Len(LowerLetters) : LowerLetters[i] = c]]

LowerOf == [c \in UpperSet |-> LowerLetters[CHOOSE i \in 1..Len(UpperLetters) : UpperLetters[i] = c]]

ToUpperChar(c) == IF IsLowerChar(c) THEN UpperOf[c] ELSE c

ToLowerChar(c) == IF IsUpperChar(c) THEN LowerOf[c] ELSE c

\* str.upper / str.lower: NaN stays NaN under the pandas .str accessor.
StrUpper(s) == IF IsNa(s) THEN NaN ELSE [i \in 1..Len(s) |-> ToUpperChar(s[i])]

StrLower(s) == IF IsNa(s) THEN NaN ELSE [i \in 1..Len(s) |-> ToLowerChar(s[i])]

\* str.isupper: some cased character, and no lower-case one.
StrIsUpper(s) ==
    /\ \E i \in 1..Len(s) : IsUpperChar(s[i])
    /\ \A i \in 1..Len(s) : ~IsLowerChar(s[i])

\* str.contains(term) for a term without regex metacharacters.
StrContains(s, term) ==
    /\ ~IsNa(s)
    /\ \E i \in 1..(Len(s) - Len(term) + 1) : SubSeq(s, i, i + Len(term) - 1) = term

\* str.strip: leading and trailing blanks removed.
StrStrip(s) ==
    IF IsNa(s) THEN NaN
    ELSE LET keep == {i \in 1..Len(s) : s[i] # " "}
         IN  IF keep = {} THEN << >>
             ELSE LET lo == CHOOSE i \in keep : \A j \in keep : i <= j
                      hi == CHOOSE i \in keep : \A j \in keep : j <= i
                  IN  SubSeq(s, lo, hi)

\* str.replace(old, new): every occurrence of old, left to right.
RECURSIVE ReplaceFrom(_, _, _, _)
ReplaceFrom(s, i, old, new) ==
    IF i > Len(s) THEN << >>
    ELSE IF i + Len(old) - 1 <= Len(s) /\ SubSeq(s, i, i + Len(old) - 1) = old
         THEN new \o ReplaceFrom(s, i + Len(old), old, new)
         ELSE <<s[i]>> \o ReplaceFrom(s, i + 1, old, new)

StrReplace(s, old, new) == IF IsNa(s) THEN NaN ELSE ReplaceFrom(s, 1, old, new)

-----------------------------------------------------------------------------
(* The issue classifier, __map_item_issues_to_groupings.                   *)

\* issue_categories, flattened in the order the two nested loops visit it.
issue_categories ==
    << <<"Damaged", <<"d", "a", "m", "a", "g", "e">> >>,
       <<"Damaged", <<"d", "i", "r", "t", "y">> >>,
       <<"Damaged", <<"t", "h", "r", "o", "w">> >>,
       <<"Damaged", <<"w", "e", "t">> >>,
       <<"Damaged", <<"d", "i", "s", "c", "o", "l", "o", "u", "r">> >>,
       <<"Damaged", <<"f", "a", "u", "l", "t", "y">> >>,
       <<"Damaged", <<"m", "o", "u", "l", "d", "y">> >>,
       <<"Damaged", <<"u", "n", "s", "a", "l", "e">> >>,
       <<"Damaged", <<"t", "h", "r", "o", "w">> >>,
       <<"Damaged", <<"c", "r", "u", "s", "h">> >>,
       <<"Damaged", <<"c", "r", "a", "c", "k">> >>,
       <<"Damaged", <<"b", "r", "o", "k", "e">> >>,
       <<"Damaged", <<"d", "a", "m", "g", "e", "s">> >>,
       <<"Damaged", <<"r", "u", "s", "t">> >>,
       <<"Wrong Item", <<"c", "r", "e", "d", "i", "t">> >>,
       <<"Wrong Item", <<"i", "n", "c", "o", "r", "r", "e", "c", "t">> >>,
       <<"Wrong Item", <<"w", "r", "o", "n", "g">> >>,
       <<"Online (?)", <<"d", "o", "t", "c", "o", "m">> >>,
       <<"Online (?)", <<"e", "b", "a", "y">> >>,
       <<"Online (?)", <<"a", "m", "a", "z", "o", "n">> >>,
       <<"Wrong Entry", <<"e", "n", "t", "r", "y">> >>,
       <<"Wrong Entry", <<"e", "r", "r", "o", "r">> >>,
       <<"Missing from order", <<"l", "o", "s", "t">> >>,
       <<"Missing from order", <<"m", "i", "s", "s", "i", "n", "g">> >>,
       <<"Mix up", <<"w", "r", "o", "n", "g", "l", "y">> >>,
       <<"Mix up", <<"m", "i", "x", " ", "u", "p">> >> >>

\* A classifier that keeps the first category assigned (not the code's).
ClassifyTermKeepFirst(category, lower, k) ==
    IF category = "Unclassified" /\ StrContains(lower, issue_categories[k][2])
    THEN issue_categories[k][1]
    ELSE category

\* Line 88, for the k-th (classification, term) pair: rows whose lower-cased
\* description contains the term get the classification, whatever they had.
ClassifyTerm(category, lower, k) ==
    IF StrContains(lower, issue_categories[k][2])
    THEN issue_categories[k][1]
    ELSE category

\* Lines 84-88 for one description: the loop run to its end.
RECURSIVE ClassifyFrom(_, _, _)
ClassifyFrom(category, lower, k) ==
    IF k > Len(issue_categories) THEN category
    ELSE ClassifyFrom(ClassifyTerm(category, lower, k), lower, k + 1)

MapItemIssue(description) == ClassifyFrom("Unclassified", StrLower(description), 1)


\* The annotation texts the classifier is run on: every keyword, every pair of
\* keywords joined by ", ", each also with a capital first letter, and two
\* texts that hold no keyword.
Keywords == {issue_categories[k][2] : k \in 1..Len(issue_categories)}

Capitalised(s) == <<ToUpperChar(s[1])>> \o Tail(s)

ClassifierTexts ==
    LET plain == Keywords \cup {a \o <<",", " ">> \o b : a \in Keywords, b \in Keywords}
    IN  plain \cup {Capitalised(t) : t \in plain}
              \cup {<<"c", "h", "e", "c", "k">>, <<"?">>}

ClassifyInit ==
    /\ cl_text \in ClassifierTexts
    /\ cl_lower = NaN
    /\ cl_category = NaNCategory
    /\ cl_flag = "NaN"
    /\ cl_k = 0
    \* the other components rest
    /\ source = [columns |-> {}, rows |-> << >>]
    /\ dataframe = [columns |-> {}, rows |-> << >>]
    /\ items = {}
    /\ duplicates = {}
    /\ issues = {}
    /\ pc = "idle"
    /\ run = 0
    /\ error = "none"
    /\ firstResult = [columns |-> {}, rows |-> << >>]
    /\ recency = << >>
    /\ frequency = << >>
    /\ monetary = << >>
    /\ customer_rfm = << >>
    /\ rfm_pc = "idle"
    /\ rfm_k = 0
    /\ main_pc = "idle"
    /\ files = {}

\* Lines 84-85: every row starts 'Unclassified'; Description_Lower is added.
ClassifyStart ==
    /\ cl_k = 0
    /\ cl_category' = "Unclassified"
    /\ cl_lower' = StrLower(cl_text)
    /\ cl_k' = 1
    /\ UNCHANGED <<cl_text, cl_flag>>
    /\ UNCHANGED <<cleanVars, rfmVars, mainVars>>

\* Lines 86-88: one pass of the inner loop body.
ClassifyStep ==
    /\ cl_k \in 1..Len(issue_categories)
    /\ cl_category' = ClassifyTerm(cl_category, cl_lower, cl_k)
    /\ cl_k' = cl_k + 1
    /\ UNCHANGED <<cl_text, cl_lower, cl_flag>>
    /\ UNCHANGED <<cleanVars, rfmVars, mainVars>>

\* Lines 90-95: the rows are flagged and returned.
ClassifyReturn ==
    /\ cl_k = Len(issue_categories) + 1
    /\ cl_flag' = "True"
    /\ cl_k' = cl_k + 1
    /\ UNCHANGED <<cl_text, cl_lower, cl_category>>
    /\ UNCHANGED <<cleanVars, rfmVars, mainVars>>

ClassifyDone == cl_k = Len(issue_categories) + 2

-----------------------------------------------------------------------------
(* Tables.  A table is its set of column names and its rows; a row is a    *)
(* record with one field per column (the column 'Customer ID' is the field *)
(* Customer_ID).  The rows are kept as a bag, a function from rows to the  *)
(* number of times each occurs: no step of cleaning_main depends on the    *)
(* order of the rows (drop-duplicates removes rows equal in every column). *)

RECURSIVE SumCounts(_, _)
SumCounts(B, S) ==
    IF S = {} THEN 0
    ELSE LET x == CHOOSE y \in S : TRUE
         IN  B[x] + SumCounts(B, S \ {x})

BagSize(B) == SumCounts(B, DOMAIN B)

BagAdd(B, x) == IF x \in DOMAIN B THEN [B EXCEPT ![x] = @ + 1] ELSE B @@ (x :> 1)

\* Every row replaced by F(row).
MapRows(B, F(_)) ==
    LET image == {<<x, F(x)>> : x \in DOMAIN B}
    IN  [y \in {p[2] : p \in image} |->
            SumCounts(B, {p[1] : p \in {q \in image : q[2] = y}})]

\* Every row replaced by the rows G(row), a non-empty set.
ExpandRows(B, G(_)) ==
    LET image == {<<x, G(x)>> : x \in DOMAIN B}
    IN  [y \in UNION {p[2] : p \in image} |->
            SumCounts(B, {p[1] : p \in {q \in image : y \in q[2]}})]

\* Lines 241: rows that are equal in every column are kept once.
DropDuplicates(B) == [x \in DOMAIN B |-> 1]

-----------------------------------------------------------------------------
(* The input: read_csv's table (retail_main.__load_data), up to MaxRows    *)
(* rows drawn from the lines below.                                        *)

MaxRows == 3

InputColumns ==
    {"Invoice", "StockCode", "Description", "Quantity", "InvoiceDate", "Price",
     "Customer_ID", "Country"}

WhiteHeart ==
    <<"W", "H", "I", "T", "E", " ", "H", "A", "N", "G", "I", "N", "G", " ", "H", "E",
      "A", "R", "T", " ", "T", "-", "L", "I", "G", "H", "T", " ", "H", "O", "L", "D",
      "E", "R">>

IvoryCutlery ==
    <<"S", "/", "1", "6", " ", "V", "I", "N", "T", "A", "G", "E", " ", "I", "V", "O",
      "R", "Y", " ", "C", "U", "T", "L", "E", "R", "Y">>

SetOfIvoryCutlery ==
    <<"S", "E", "T", " ", "O", "F", " ", "1", "6", " ", "V", "I", "N", "T", "A", "G",
      "E", " ", "I", "V", "O", "R", "Y", " ", "C", "U", "T", "L", "E", "R", "Y">>

Found == <<"f", "o", "u", "n", "d">>

Check == <<"c", "h", "e", "c", "k">>

Damaged == <<"d", "a", "m", "a", "g", "e", "d">>

DamagedLost == <<"d", "a", "m", "a", "g", "e", "d", ",", " ", "l", "o", "s", "t">>

Code85123A == <<"8", "5", "1", "2", "3", "A">>

Code84968B == <<"8", "4", "9", "6", "8", "B">>

Code35598C == <<"3", "5", "5", "9", "8", "C">>

\* The product codes as the file has them: one in lower case.
InputStockCodes == {<<"8", "5", "1", "2", "3", "a">>, Code84968B}

InputDescriptions == {WhiteHeart, IvoryCutlery, Check, Damaged, DamagedLost, NaN}

InputQuantities == {-95, 5, 100}

OrderInvoice == <<"4", "8", "9", "4", "3", "4">>

CancelledInvoice == <<"C", "4", "8", "9", "4", "4", "9">>

InputRow(inv, sc, d, q) ==
    [Invoice |-> inv, StockCode |-> sc, Description |-> d, Quantity |-> q,
     InvoiceDate |-> [date |-> <<2009, 12, 1>>, time |-> <<7, 45>>],
     Price |-> 2, Customer_ID |-> 13085,
     Country |-> <<"U", "n", "i", "t", "e", "d", " ", "K", "i", "n", "g", "d", "o", "m">>]

\* Order lines of every code, description and quantity, and the cancellation
\* of a product line.
InputLines ==
    {InputRow(OrderInvoice, sc, d, q) :
        sc \in InputStockCodes, d \in InputDescriptions, q \in InputQuantities}
    \cup {InputRow(CancelledInvoice, sc, WhiteHeart, -95) : sc \in InputStockCodes}

-----------------------------------------------------------------------------
(* The Description Reconciler, __address_duplicate_descriptions and the    *)
(* functions it calls.                                                     *)

\* Lines 181-188: the six replacements, in order.
NormaliseDescription(d) ==
    LET d1 == StrReplace(d, <<"x", "4", "0", "c", "m">>, <<"X", "4", "0", "C", "M">>)
        d2 == StrReplace(d1, <<"x", "4", "5", "c", "m">>, <<"X", "4", "5", "C", "M">>)
        d3 == StrReplace(d2, <<"x", "3", "0", "C", "M">>, <<"X", "3", "0", "C", "M">>)
        d4 == StrReplace(d3, <<"x", "3", "0", "c", "m">>, <<"X", "3", "0", "C", "M">>)
        d5 == StrReplace(d4, <<"T", "R", "A", "D", "I", "T", "I", "O", "N", "A", "l">>,
                             <<"T", "R", "A", "D", "I", "T", "I", "O", "N", "A", "L">>)
    IN  StrReplace(d5, <<"N", "o">>, <<"N", "O">>)

RECURSIVE SumQuantity(_, _)
SumQuantity(B, S) ==
    IF S = {} THEN 0
    ELSE LET x == CHOOSE y \in S : TRUE
         IN  x.Quantity * B[x] + SumQuantity(B, S \ {x})

\* Line 191: groupby(['StockCode','Description'])['Quantity'].sum(); a group
\* key that is NaN is dropped.
Items(rows) ==
    LET keys == {<<r.StockCode, r.Description>> : r \in DOMAIN rows}
    IN  {[StockCode |-> k[1], Description |-> k[2],
          Quantity |-> SumQuantity(rows, {r \in DOMAIN rows :
                                             /\ r.StockCode = k[1]
                                             /\ r.Description = k[2]})] :
            k \in {kk \in keys : ~IsNa(kk[1]) /\ ~IsNa(kk[2])}}

\* duplicated(subset = ['StockCode'], keep = False): the groups of a product
\* code that has more than one.
DuplicatedStockCode(groups) ==
    {g \in groups : \E h \in groups : h.StockCode = g.StockCode /\ h # g}

\* The exclusions of lines 112-113 and 149-150.
Excluded(sc, d) ==
    \/ d = IvoryCutlery
    \/ d = Found /\ sc = Code35598C

\* Lines 104-117 and 147-150 with a description of least quantity (not the
\* code's).
BottomDescriptions(groups) ==
    {[StockCode |-> g.StockCode, Description_New |-> g.Description] :
        g \in {h \in groups :
                 /\ \A o \in groups : o.StockCode = h.StockCode => h.Quantity <= o.Quantity
                 /\ ~Excluded(h.StockCode, h.Description)}}

\* Lines 104-117 and 147-150: per product code the descriptions whose quantity
\* is the greatest of the code, less the exclusions.
TopDescriptions(groups) ==
    {[StockCode |-> g.StockCode, Description_New |-> g.Description] :
        g \in {h \in groups :
                 /\ \A o \in groups : o.StockCode = h.StockCode => o.Quantity <= h.Quantity
                 /\ ~Excluded(h.StockCode, h.Description)}}

\* merge(..., validate = 'one_to_one') raises MergeError unless the key is
\* unique in the left frame and in the right frame, over all their rows.
KeyUnique(frame) == \A a \in frame : \A b \in frame : a.StockCode = b.StockCode => a = b

\* Lines 120-122: the 'check' groups, each with its code's top description.
Checks(groups) ==
    UNION {{[StockCode |-> g.StockCode, Description |-> g.Description,
             Description_New |-> t.Description_New] :
               t \in {u \in TopDescriptions(groups) : u.StockCode = g.StockCode}} :
           g \in {h \in groups : StrContains(h.Description, Check)}}

\* Lines 125-127 and 130-132 for one (StockCode, Description): the left merge
\* with checks, and the overwrite where Description_New is not NaN.
CheckedDescription(checks, sc, d) ==
    IF \E m \in checks : m.StockCode = sc /\ m.Description = d
    THEN (CHOOSE m \in checks : m.StockCode = sc /\ m.Description = d).Description_New
    ELSE d

\* Lines 130-134: duplicates with the 'check' descriptions overwritten, summed
\* again, and again only the codes with more than one description.
RegroupedDuplicates(groups, checks) ==
    LET new(g) == CheckedDescription(checks, g.StockCode, g.Description)
        keys == {<<g.StockCode, new(g)>> : g \in groups}
        total(k) == SumQuantity([g \in groups |-> 1],
                                {g \in groups : g.StockCode = k[1] /\ new(g) = k[2]})
    IN  DuplicatedStockCode({[StockCode |-> k[1], Description |-> k[2],
                              Quantity |-> total(k)] : k \in keys})

\* Line 198 taking the upper-case descriptions (not the code's).
UpperCaseDescriptions(groups) ==
    {g.Description : g \in {h \in groups : StrIsUpper(h.Description)}}

\* Line 198: the descriptions of the duplicate groups that are not upper case.
IssueDescriptions(groups) ==
    {g.Description : g \in {h \in groups : ~StrIsUpper(h.Description)}}

\* Lines 198-200.
IssuesOf(groups) ==
    {[Description |-> d, IssueWithItem |-> "True", IssueCategory |-> MapItemIssue(d)] :
        d \in IssueDescriptions(groups)}

\* Lines 152-153: every description of a code, with each of the code's top
\* descriptions.
DescrMapping(groups) ==
    UNION {{[StockCode |-> g.StockCode, Description |-> g.Description,
             Description_New |-> t.Description_New] :
               t \in {u \in TopDescriptions(groups) : u.StockCode = g.StockCode}} :
           g \in groups}

-----------------------------------------------------------------------------
(* The Record Cleaner, cleaning_main.                                      *)

EmptyTable(columns) == [columns |-> columns, rows |-> << >>]

SetColumn(r, col, val) == [c \in DOMAIN r \cup {col} |-> IF c = col THEN val ELSE r[c]]

\* Line 271: the columns of the result.
OutputColumns ==
    {"Invoice", "StockCode", "Description", "OrigDescription", "Customer_ID", "Country",
     "Quantity", "Price", "InvoiceDate", "Date", "Time", "CancelledOrder",
     "IssueWithItem", "IssueCategory", "QuantityLeqZero", "NoDescriptionOrPrice",
     "PriceIsCredit"}

\* The object columns that hold text, which lines 248-250 strip.
TextColumns == {"Invoice", "StockCode", "Description", "Country", "OrigDescription"}

\* The object columns that hold dates and times: .str raises AttributeError
\* on a column of such values.
DateTimeColumns == {"Date", "Time"}

CleanInit ==
    /\ source = EmptyTable(InputColumns)
    /\ dataframe = EmptyTable({})
    /\ items = {}
    /\ duplicates = {}
    /\ issues = {}
    /\ pc = "load"
    /\ run = 1
    /\ error = "none"
    /\ firstResult = EmptyTable({})
    \* the other components rest
    /\ recency = << >>
    /\ frequency = << >>
    /\ monetary = << >>
    /\ customer_rfm = << >>
    /\ rfm_pc = "idle"
    /\ rfm_k = 0
    /\ cl_text = NaN
    /\ cl_lower = NaN
    /\ cl_category = NaNCategory
    /\ cl_flag = "NaN"
    /\ cl_k = -1
    /\ main_pc = "idle"
    /\ files = {}

\* retail_main.__load_data: one more line of the file is in the table.
LoadRow ==
    /\ pc = "load"
    /\ BagSize(source.rows) < MaxRows
    /\ \E r \in InputLines : source' = [source EXCEPT !.rows = BagAdd(@, r)]
    /\ UNCHANGED <<dataframe, items, duplicates, issues, pc, run, error, firstResult>>
    /\ UNCHANGED <<classVars, rfmVars, mainVars>>

\* Lines 238-253.  Line 238 writes the upper-cased StockCode into the caller's
\* table; line 241 makes the table the rest works on.
Prepare ==
    /\ pc \in {"load", "again"}
    /\ LET upper(r) == [r EXCEPT !.StockCode = StrUpper(@)]
           src == [source EXCEPT !.rows = MapRows(@, upper)]
           cancelled(r) == SetColumn(r, "CancelledOrder", StrContains(r.Invoice, <<"C">>))
           flagged == MapRows(DropDuplicates(src.rows), cancelled)
           columns == src.columns \cup {"CancelledOrder"}
           strip(r) == [c \in DOMAIN r |-> IF c \in TextColumns THEN StrStrip(r[c]) ELSE r[c]]
           orig(r) == SetColumn(r, "OrigDescription", r.Description)
       IN  /\ source' = src
           /\ IF columns \cap DateTimeColumns # {} /\ DOMAIN flagged # {}
              THEN /\ dataframe' = [columns |-> columns, rows |-> flagged]
                   /\ error' = "AttributeError"
                   /\ pc' = "raised"
              ELSE /\ dataframe' = [columns |-> columns \cup {"OrigDescription"},
                                    rows |-> MapRows(MapRows(flagged, strip), orig)]
                   /\ error' = error
                   /\ pc' = "items"
    /\ UNCHANGED <<items, duplicates, issues, run, firstResult>>
    /\ UNCHANGED <<classVars, rfmVars, mainVars>>

\* Lines 181-192.
FindDuplicates ==
    /\ pc = "items"
    /\ LET normalise(r) == [r EXCEPT !.Description = NormaliseDescription(@)]
           rows == MapRows(dataframe.rows, normalise)
       IN  /\ dataframe' = [dataframe EXCEPT !.rows = rows]
           /\ items' = Items(rows)
           /\ duplicates' = DuplicatedStockCode(Items(rows))
    /\ pc' = "pass1"
    /\ UNCHANGED <<source, issues, run, error, firstResult>>
    /\ UNCHANGED <<classVars, rfmVars, mainVars>>

\* Line 195, __overwrite_check_records (lines 97-136).
OverwriteCheckRecords ==
    /\ pc = "pass1"
    /\ LET checkGroups == {h \in duplicates : StrContains(h.Description, Check)}
           checks == Checks(duplicates)
           overwrite(r) ==
               [r EXCEPT !.Description = CheckedDescription(checks, r.StockCode, @)]
       IN  IF KeyUnique(checkGroups) /\ KeyUnique(TopDescriptions(duplicates))
           THEN /\ dataframe' = [dataframe EXCEPT !.rows = MapRows(@, overwrite)]
                /\ duplicates' = RegroupedDuplicates(duplicates, checks)
                /\ error' = error
                /\ pc' = "issues"
           ELSE /\ error' = "MergeError"
                /\ pc' = "raised"
                /\ UNCHANGED <<dataframe, duplicates>>
    /\ UNCHANGED <<source, items, issues, run, firstResult>>
    /\ UNCHANGED <<classVars, rfmVars, mainVars>>

\* Line 203 for one row: the left merge with issues on Description.  Columns
\* the two frames share besides the key come out with the suffixes _x and _y.
MergedWithIssues(r, found) ==
    LET flag == IF \E i \in found : i.Description = r.Description
                THEN "True" ELSE "NaN"
        category == IF \E i \in found : i.Description = r.Description
                    THEN (CHOOSE i \in found : i.Description = r.Description).IssueCategory
                    ELSE NaNCategory
    IN  IF "IssueWithItem" \in DOMAIN r
        THEN [c \in (DOMAIN r \ {"IssueWithItem", "IssueCategory"})
                    \cup {"IssueWithItem_x", "IssueCategory_x",
                          "IssueWithItem_y", "IssueCategory_y"} |->
                CASE c = "IssueWithItem_x" -> r.IssueWithItem
                  [] c = "IssueCategory_x" -> r.IssueCategory
                  [] c = "IssueWithItem_y" -> flag
                  [] c = "IssueCategory_y" -> category
                  [] OTHER -> r[c]]
        ELSE SetColumn(SetColumn(r, "IssueWithItem", flag), "IssueCategory", category)

MergedColumns(columns) ==
    IF "IssueWithItem" \in columns
    THEN (columns \ {"IssueWithItem", "IssueCategory"})
         \cup {"IssueWithItem_x", "IssueCategory_x", "IssueWithItem_y", "IssueCategory_y"}
    ELSE columns \cup {"IssueWithItem", "IssueCategory"}

\* Lines 198-203.
MapIssues ==
    /\ pc = "issues"
    /\ issues' = IssuesOf(duplicates)
    /\ LET found == IssuesOf(duplicates)
           merge(r) == MergedWithIssues(r, found)
       IN  dataframe' = [columns |-> MergedColumns(dataframe.columns),
                         rows |-> MapRows(dataframe.rows, merge)]
    /\ pc' = "pass2"
    /\ UNCHANGED <<source, items, duplicates, run, error, firstResult>>
    /\ UNCHANGED <<classVars, rfmVars, mainVars>>

\* Lines 156-158 for one row: the left merge with descr_mapping gives the row
\* once per Description_New of its (StockCode, Description), or once unchanged.
Overwritten(r, mapping) ==
    LET new == {m.Description_New :
                  m \in {n \in mapping : /\ n.StockCode = r.StockCode
                                         /\ n.Description = r.Description}}
    IN  IF new = {} THEN {r} ELSE {[r EXCEPT !.Description = d] : d \in new}

\* Lines 204-207: __overwrite_duped_descriptions (lines 138-160), then the
\* description of StockCode 84968B.
OverwriteDupedDescriptions ==
    /\ pc = "pass2"
    /\ LET mapping == DescrMapping(duplicates)
           overwrite(r) == Overwritten(r, mapping)
           hack(r) == IF r.StockCode = Code84968B
                      THEN [r EXCEPT !.Description = SetOfIvoryCutlery]
                      ELSE r
       IN  dataframe' = [dataframe EXCEPT
                            !.rows = MapRows(ExpandRows(@, overwrite), hack)]
    /\ pc' = "finish"
    /\ UNCHANGED <<source, items, duplicates, issues, run, error, firstResult>>
    /\ UNCHANGED <<classVars, rfmVars, mainVars>>

\* Lines 255-271 for one row.
Finished(r) ==
    LET full == [c \in DOMAIN r \cup OutputColumns |->
                   CASE c = "IssueWithItem" ->
                            IF r.IssueWithItem = "NaN" THEN "False" ELSE r.IssueWithItem
                     [] c = "NoDescriptionOrPrice" -> IsNa(r.Description)
                     [] c = "PriceIsCredit" -> r.Price < 0
                     [] c = "QuantityLeqZero" -> r.Quantity <= 0
                     [] c = "Date" -> r.InvoiceDate.date
                     [] c = "Time" -> r.InvoiceDate.time
                     [] OTHER -> r[c]]
    IN  [c \in OutputColumns |-> full[c]]

\* Lines 255-273.  Line 255 raises KeyError when the table has no column
\* IssueWithItem.
Finish ==
    /\ pc = "finish"
    /\ IF "IssueWithItem" \in dataframe.columns
       THEN /\ dataframe' = [columns |-> OutputColumns,
                             rows |-> MapRows(dataframe.rows, Finished)]
            /\ firstResult' = IF run = 1 THEN dataframe' ELSE firstResult
            /\ error' = error
            /\ pc' = "done"
       ELSE /\ error' = "KeyError"
            /\ pc' = "raised"
            /\ UNCHANGED <<dataframe, firstResult>>
    /\ UNCHANGED <<source, items, duplicates, issues, run>>
    /\ UNCHANGED <<classVars, rfmVars, mainVars>>

\* cleaning_main is called on the table its first call returned.
CleanAgain ==
    /\ pc = "done"
    /\ run = 1
    /\ source' = dataframe
    /\ run' = 2
    /\ pc' = "again"
    /\ UNCHANGED <<dataframe, items, duplicates, issues, error, firstResult>>
    /\ UNCHANGED <<classVars, rfmVars, mainVars>>

CleanNext ==
    \/ LoadRow
    \/ Prepare
    \/ FindDuplicates
    \/ OverwriteCheckRecords
    \/ MapIssues
    \/ OverwriteDupedDescriptions
    \/ Finish
    \/ CleanAgain

SpecClean == CleanInit /\ [][CleanNext]_vars

-----------------------------------------------------------------------------
(* The RFM scorer, __RFM_identification, from the three aggregate frames   *)
(* of lines 49-64 on.                                                      *)

\* The customers of the modelled table, and the aggregate values they may
\* have: values on both sides of the breakpoints and beyond the last one.
\* A recency gap is never negative and a customer has at least one purchase
\* date; the total spent may be negative (returns that are not cancellations).
\* The code's totals are floats; the samples are whole amounts.
CustomerIDs == {12346, 12347}

DaysSamples == {0, 25, 30, 31, 91, 361, 801}

OrdersSamples == {2, 3, 4, 9, 36, 301}

SpentSamples == {-1, 500, 1000, 1001, 10001, 100001, 1000001}

RecencyBins == <<-1, 30, 90, 360, 800>>

RecencyLabels == <<4, 3, 2, 1>>

FrequencyBins == <<-1, 3, 8, 35, 300>>

FrequencyLabels == <<1, 2, 3, 4>>

MonetaryBins == <<-1, 1000, 10000, 100000, 1000000>>

MonetaryLabels == <<1, 2, 3, 4>>

\* A binning that clamps values beyond the outer breakpoints (not the code's).
PdCutClamped(v, bins, labels) ==
    IF v <= bins[1] THEN <<labels[1]>>
    ELSE IF v > bins[Len(bins)] THEN <<labels[Len(labels)]>>
    ELSE <<labels[CHOOSE i \in 1..Len(labels) : bins[i] < v /\ v <= bins[i + 1]]>>

\* pd.cut(value, bins, labels): the label of the right-closed interval
\* (bins[i], bins[i+1]] holding the value, as <<label>>; << >> is the NaN
\* pd.cut gives a value that lies in no interval.
PdCut(v, bins, labels) ==
    LET hit == {i \in 1..Len(labels) : bins[i] < v /\ v <= bins[i + 1]}
    IN  IF hit = {} THEN << >> ELSE <<labels[CHOOSE i \in hit : TRUE]>>

\* .astype(int) on the cut column raises ValueError when it holds a NaN.
AsTypeIntRaises(cut) == \E c \in DOMAIN cut : cut[c] = << >>

RfmInit ==
    /\ \E ids \in (SUBSET CustomerIDs) \ {{}} :
         /\ recency \in [ids -> [days : DaysSamples]]
         /\ frequency \in [ids -> [orders : OrdersSamples]]
         /\ monetary \in [ids -> [spent : SpentSamples]]
    \* line 52: the gap is taken from the latest date of the data, so some
    \* customer's gap is 0
    /\ \E c \in DOMAIN recency : recency[c].days = 0
    /\ customer_rfm = << >>
    /\ rfm_pc = "cut_recency"
    /\ rfm_k = 1
    \* the other components rest
    /\ source = [columns |-> {}, rows |-> << >>]
    /\ dataframe = [columns |-> {}, rows |-> << >>]
    /\ items = {}
    /\ duplicates = {}
    /\ issues = {}
    /\ pc = "idle"
    /\ run = 0
    /\ error = "none"
    /\ firstResult = [columns |-> {}, rows |-> << >>]
    /\ cl_text = NaN
    /\ cl_lower = NaN
    /\ cl_category = NaNCategory
    /\ cl_flag = "NaN"
    /\ cl_k = -1
    /\ main_pc = "idle"
    /\ files = {}

\* Lines 83-85.
CutRecency ==
    /\ rfm_pc = "cut_recency"
    /\ LET cut == [c \in DOMAIN recency |->
                     PdCut(recency[c].days, RecencyBins, RecencyLabels)]
       IN  IF AsTypeIntRaises(cut)
           THEN /\ rfm_pc' = "ValueError"
                /\ UNCHANGED recency
           ELSE /\ rfm_pc' = "cut_frequency"
                /\ recency' = [c \in DOMAIN recency |->
                                 [days |-> recency[c].days, Recency |-> cut[c][1]]]
    /\ UNCHANGED <<frequency, monetary, customer_rfm, rfm_k>>
    /\ UNCHANGED <<cleanVars, classVars, mainVars>>

\* Lines 86-88.
CutFrequency ==
    /\ rfm_pc = "cut_frequency"
    /\ LET cut == [c \in DOMAIN frequency |->
                     PdCut(frequency[c].orders, FrequencyBins, FrequencyLabels)]
       IN  IF AsTypeIntRaises(cut)
           THEN /\ rfm_pc' = "ValueError"
                /\ UNCHANGED frequency
           ELSE /\ rfm_pc' = "cut_monetary"
                /\ frequency' = [c \in DOMAIN frequency |->
                                   [orders |-> frequency[c].orders,
                                    Frequency |-> cut[c][1]]]
    /\ UNCHANGED <<recency, monetary, customer_rfm, rfm_k>>
    /\ UNCHANGED <<cleanVars, classVars, mainVars>>

\* Lines 89-91.
CutMonetary ==
    /\ rfm_pc = "cut_monetary"
    /\ LET cut == [c \in DOMAIN monetary |->
                     PdCut(monetary[c].spent, MonetaryBins, MonetaryLabels)]
       IN  IF AsTypeIntRaises(cut)
           THEN /\ rfm_pc' = "ValueError"
                /\ UNCHANGED monetary
           ELSE /\ rfm_pc' = "merge"
                /\ monetary' = [c \in DOMAIN monetary |->
                                  [spent |-> monetary[c].spent,
                                   Monetary |-> cut[c][1]]]
    /\ UNCHANGED <<recency, frequency, customer_rfm, rfm_k>>
    /\ UNCHANGED <<cleanVars, classVars, mainVars>>

\* int -> str for a score.
Digits == <<"0", "1", "2", "3", "4", "5", "6", "7", "8", "9">>

AsTypeStr(n) == Digits[n + 1]

\* A composite score with the digits in the opposite order (not the code's).
RFMScoreReversed(r, f, m) == <<AsTypeStr(m), AsTypeStr(f), AsTypeStr(r)>>

\* Line 101: the three scores as strings, concatenated.
RFMScore(r, f, m) == <<AsTypeStr(r), AsTypeStr(f), AsTypeStr(m)>>

\* Lines 100-101: the three frames merged on Customer ID, and the score.
\* No row has a Segment yet.
MergeFrames ==
    /\ rfm_pc = "merge"
    /\ customer_rfm' =
         [c \in DOMAIN recency |->
            [days |-> recency[c].days, Recency |-> recency[c].Recency,
             orders |-> frequency[c].orders, Frequency |-> frequency[c].Frequency,
             spent |-> monetary[c].spent, Monetary |-> monetary[c].Monetary,
             RFMScore |-> RFMScore(recency[c].Recency, frequency[c].Frequency,
                                   monetary[c].Monetary),
             Segment |-> NaNCategory]]
    /\ rfm_pc' = "segment"
    /\ UNCHANGED <<recency, frequency, monetary, rfm_k>>
    /\ UNCHANGED <<cleanVars, classVars, mainVars>>

\* The labels with those of lines 109 and 110 exchanged (not the code's).
SegmentLabelsSwapped ==
    <<"Bad Customer", "Average Customer", "Good Customer",
      "Infrequent Shopper", "Lost Customers", "Small Spender", "Worst Customers",
      "Recent Customers", "Frequent Shoppers", "Big Spenders", "Best Customers">>

\* The labels with those of lines 107 and 117 exchanged (not the code's).
SegmentLabelsGoodLast ==
    <<"Bad Customer", "Average Customer", "Best Customers",
      "Lost Customers", "Infrequent Shopper", "Small Spender", "Worst Customers",
      "Recent Customers", "Frequent Shoppers", "Big Spenders", "Good Customer">>

\* Lines 105-117: the eleven assignments, in the order of the text.
SegmentLabels ==
    <<"Bad Customer", "Average Customer", "Good Customer",
      "Lost Customers", "Infrequent Shopper", "Small Spender", "Worst Customers",
      "Recent Customers", "Frequent Shoppers", "Big Spenders", "Best Customers">>

\* The masks with the first sum bucket stopping at 5 (not the code's).
SegmentMaskNarrow(k, row) ==
    LET total == row.Recency + row.Frequency + row.Monetary
    IN  CASE k = 1 -> total \in {4, 5}
          [] k = 2 -> total \in {7, 8, 9}
          [] k = 3 -> total \in {10, 11, 12, 13}
          [] k = 4 -> row.RFMScore[1] = "1"
          [] k = 5 -> row.RFMScore[2] = "1"
          [] k = 6 -> row.RFMScore[3] = "1"
          [] k = 7 -> row.RFMScore = <<"1", "1", "1">>
          [] k = 8 -> row.RFMScore[1] = "4"
          [] k = 9 -> row.RFMScore[2] = "4"
          [] k = 10 -> row.RFMScore[3] = "4"
          [] k = 11 -> row.RFMScore = <<"4", "4", "4">>

\* The masks of lines 105-117.
SegmentMask(k, row) ==
    LET total == row.Recency + row.Frequency + row.Monetary
    IN  CASE k = 1 -> total \in {4, 5, 6}
          [] k = 2 -> total \in {7, 8, 9}
          [] k = 3 -> total \in {10, 11, 12, 13}
          [] k = 4 -> row.RFMScore[1] = "1"
          [] k = 5 -> row.RFMScore[2] = "1"
          [] k = 6 -> row.RFMScore[3] = "1"
          [] k = 7 -> row.RFMScore = <<"1", "1", "1">>
          [] k = 8 -> row.RFMScore[1] = "4"
          [] k = 9 -> row.RFMScore[2] = "4"
          [] k = 10 -> row.RFMScore[3] = "4"
          [] k = 11 -> row.RFMScore = <<"4", "4", "4">>

\* An assignment that leaves a Segment already set alone (not the code's).
AssignKeepFirst(k, row) ==
    IF SegmentMask(k, row) /\ row.Segment = NaNCategory
    THEN [row EXCEPT !.Segment = SegmentLabels[k]]
    ELSE row

\* customer_rfm.loc[mask, 'Segment'] = label, for one row.
Assign(k, row) ==
    IF SegmentMask(k, row) THEN [row EXCEPT !.Segment = SegmentLabels[k]] ELSE row

AssignSegment ==
    /\ rfm_pc = "segment"
    /\ rfm_k <= Len(SegmentLabels)
    /\ customer_rfm' = [c \in DOMAIN customer_rfm |-> Assign(rfm_k, customer_rfm[c])]
    /\ rfm_k' = rfm_k + 1
    /\ UNCHANGED <<recency, frequency, monetary, rfm_pc>>
    /\ UNCHANGED <<cleanVars, classVars, mainVars>>

\* Line 119.
ReturnRfm ==
    /\ rfm_pc = "segment"
    /\ rfm_k = Len(SegmentLabels) + 1
    /\ rfm_pc' = "return"
    /\ UNCHANGED <<recency, frequency, monetary, customer_rfm, rfm_k>>
    /\ UNCHANGED <<cleanVars, classVars, mainVars>>

-----------------------------------------------------------------------------
(* Specifications.  Each runs one component; the variables of the others   *)
(* rest.                                                                   *)


ClassifyNext ==
    \/ ClassifyStart
    \/ ClassifyStep
    \/ ClassifyReturn

SpecClassify == ClassifyInit /\ [][ClassifyNext]_vars

RfmNext ==
    \/ CutRecency
    \/ CutFrequency
    \/ CutMonetary
    \/ MergeFrames
    \/ AssignSegment
    \/ ReturnRfm

SpecRfm == RfmInit /\ [][RfmNext]_vars

-----------------------------------------------------------------------------
(* The pipeline, retail_main.main: load, profile, clean, model, output.    *)
(* It runs cleaning_main and __RFM_identification as modelled above, on    *)
(* the table it loaded.                                                    *)

\* The most different lines the loaded file has.
MaxLines == 3

\* retail_main.py line 72: the size of the sample the profiling draws.
SampleSize == 200

\* The files main writes (lines 78-80, 109-111, 112).
DescriptiveWorkbook == "Profiling\\Descriptive.xlsx"

SupportWorkbook == "Outputs\\online_retail_II_Support.xlsx"

TidiedCsv == "Outputs\\Tidied_online_retail_II.csv"

\* The Customer ID of a line that names no customer (NaN in the table).
NaNCustomer == 0

\* A line without a customer.
AnonymousLine ==
    [InputRow(OrderInvoice, Code84968B, SetOfIvoryCutlery, 100) EXCEPT
        !.Customer_ID = NaNCustomer]

\* A line of another customer, 31 days earlier.
EarlierLine ==
    [InputRow(OrderInvoice, Code84968B, SetOfIvoryCutlery, 5) EXCEPT
        !.InvoiceDate = [date |-> <<2009, 10, 31>>, time |-> <<7, 45>>],
        !.Customer_ID = 13078]

\* The lines the file is made of: order lines of one product code, in lower
\* case in the file, its cancellation, the earlier line and the line without
\* a customer.
PipelineLines ==
    {InputRow(OrderInvoice, <<"8", "5", "1", "2", "3", "a">>, d, q) :
        d \in {WhiteHeart, Damaged, Check}, q \in InputQuantities}
    \cup {InputRow(CancelledInvoice, <<"8", "5", "1", "2", "3", "a">>, WhiteHeart, -95),
          EarlierLine, AnonymousLine}

\* The number of the day of a datetime.date <<year, month, day>>, counted
\* from 1970-01-01 (proleptic Gregorian calendar).
DayNumber(date) ==
    LET y == IF date[2] <= 2 THEN date[1] - 1 ELSE date[1]
        era == y \div 400
        yoe == y - era * 400
        mp == IF date[2] > 2 THEN date[2] - 3 ELSE date[2] + 9
        doy == (153 * mp + 2) \div 5 + date[3] - 1
        doe == yoe * 365 + yoe \div 4 - yoe \div 100 + doy
    IN  era * 146097 + doe - 719468

MaxDayNumber(S) == CHOOSE n \in S : \A m \in S : m <= n

\* retail_modelling.__subset_useful_data, lines 27-31: the rows that are not
\* cancellations and have a Customer ID.  The table is not written to.
RfmData(rows) ==
    LET kept == {r \in DOMAIN rows : ~r.CancelledOrder /\ r.Customer_ID # NaNCustomer}
    IN  [r \in kept |-> rows[r]]

RECURSIVE SumTotalPrice(_, _)
SumTotalPrice(B, S) ==
    IF S = {} THEN 0
    ELSE LET x == CHOOSE y \in S : TRUE
         IN  x.Price * x.Quantity * B[x] + SumTotalPrice(B, S \ {x})

\* Lines 49-54: per customer, the days from its latest Date to the latest Date
\* of the data.
RecencyFrame(data) ==
    LET max_date == MaxDayNumber({DayNumber(r.Date) : r \in DOMAIN data})
    IN  [c \in {r.Customer_ID : r \in DOMAIN data} |->
           [days |-> max_date
                     - MaxDayNumber({DayNumber(r.Date) :
                                       r \in {q \in DOMAIN data : q.Customer_ID = c}})]]

\* Lines 57-58: per customer, the number of its different Dates.
FrequencyFrame(data) ==
    [c \in {r.Customer_ID : r \in DOMAIN data} |->
       [orders |-> Cardinality({r.Date : r \in {q \in DOMAIN data : q.Customer_ID = c}})]]

\* Lines 61-64: per customer, the sum of Price * Quantity.
MonetaryFrame(data) ==
    [c \in {r.Customer_ID : r \in DOMAIN data} |->
       [spent |-> SumTotalPrice(data, {q \in DOMAIN data : q.Customer_ID = c})]]

PipelineInit ==
    /\ main_pc = "load"
    /\ files = {}
    /\ source = EmptyTable(InputColumns)
    /\ dataframe = EmptyTable({})
    /\ items = {}
    /\ duplicates = {}
    /\ issues = {}
    /\ pc = "idle"
    /\ run = 1
    /\ error = "none"
    /\ firstResult = EmptyTable({})
    /\ recency = << >>
    /\ frequency = << >>
    /\ monetary = << >>
    /\ customer_rfm = << >>
    /\ rfm_pc = "idle"
    /\ rfm_k = 0
    \* the classifier is run inside MapIssues
    /\ cl_text = NaN
    /\ cl_lower = NaN
    /\ cl_category = NaNCategory
    /\ cl_flag = "NaN"
    /\ cl_k = -1

\* main line 89, __load_data: the file has one more line, once or many times.
ReadLines ==
    /\ main_pc = "load"
    /\ Cardinality(DOMAIN source.rows) < MaxLines
    /\ \E r \in PipelineLines \ DOMAIN source.rows : \E n \in {1, SampleSize} :
          source' = [source EXCEPT !.rows = @ @@ (r :> n)]
    /\ UNCHANGED <<dataframe, items, duplicates, issues, pc, run, error, firstResult>>
    /\ UNCHANGED <<classVars, rfmVars, mainVars>>

\* main line 93, __simple_profiling: sample(200) raises ValueError on a table
\* of fewer rows; otherwise the workbook of lines 78-80 is written.
SimpleProfiling ==
    /\ main_pc = "load"
    /\ IF BagSize(source.rows) < SampleSize
       THEN /\ main_pc' = "aborted"
            /\ UNCHANGED files
       ELSE /\ main_pc' = "clean"
            /\ files' = files \cup {DescriptiveWorkbook}
    /\ UNCHANGED <<cleanVars, classVars, rfmVars>>

\* main line 97: cleaning_main is entered with main's table.
CallCleaning ==
    /\ main_pc = "clean"
    /\ pc' = "load"
    /\ main_pc' = "cleaning"
    /\ UNCHANGED <<source, dataframe, items, duplicates, issues, run, error, firstResult>>
    /\ UNCHANGED <<files, classVars, rfmVars>>

\* An aborted run that has written the tidied table all the same (not the
\* code's).
CleaningRaisedWriting ==
    /\ main_pc = "cleaning"
    /\ pc = "raised"
    /\ main_pc' = "aborted"
    /\ files' = files \cup {TidiedCsv}
    /\ UNCHANGED <<cleanVars, classVars, rfmVars>>

\* The exception of cleaning_main leaves main at line 97.
CleaningRaised ==
    /\ main_pc = "cleaning"
    /\ pc = "raised"
    /\ main_pc' = "aborted"
    /\ UNCHANGED <<files, cleanVars, classVars, rfmVars>>

\* main line 104, modelling_main lines 138-141: the subset, and lines 49-64
\* of __RFM_identification.  The difference of line 52 is one of datetime.date
\* objects: whether .dt accepts it depends on the pandas in use, and with no
\* row left it does not.
CallModelling ==
    /\ main_pc = "cleaning"
    /\ pc = "done"
    /\ main_pc' = "modelling"
    /\ LET rfm_data == RfmData(dataframe.rows)
       IN  \E accepted \in BOOLEAN :
              IF DOMAIN rfm_data = {} \/ ~accepted
              THEN /\ rfm_pc' = "AttributeError"
                   /\ UNCHANGED <<recency, frequency, monetary, rfm_k>>
              ELSE /\ recency' = RecencyFrame(rfm_data)
                   /\ frequency' = FrequencyFrame(rfm_data)
                   /\ monetary' = MonetaryFrame(rfm_data)
                   /\ rfm_pc' = "cut_recency"
                   /\ rfm_k' = 1
    /\ UNCHANGED <<customer_rfm, files, cleanVars, classVars>>

\* The exception of modelling_main leaves main at line 104.
ModellingRaised ==
    /\ main_pc = "modelling"
    /\ rfm_pc \in {"ValueError", "AttributeError"}
    /\ main_pc' = "aborted"
    /\ UNCHANGED <<files, cleanVars, classVars, rfmVars>>

\* main lines 109-111: dictionary_dump of the modelled frames.
OutputWorkbook ==
    /\ main_pc = "modelling"
    /\ rfm_pc = "return"
    /\ files' = files \cup {SupportWorkbook}
    /\ main_pc' = "output"
    /\ UNCHANGED <<cleanVars, classVars, rfmVars>>

\* main line 112: the cleaned table as csv.
OutputCsv ==
    /\ main_pc = "output"
    /\ files' = files \cup {TidiedCsv}
    /\ main_pc' = "done"
    /\ UNCHANGED <<cleanVars, classVars, rfmVars>>

PipelineNext ==
    \/ ReadLines
    \/ SimpleProfiling
    \/ CallCleaning
    \/ Prepare
    \/ FindDuplicates
    \/ OverwriteCheckRecords
    \/ MapIssues
    \/ OverwriteDupedDescriptions
    \/ Finish
    \/ CleaningRaised
    \/ CallModelling
    \/ CutRecency
    \/ CutFrequency
    \/ CutMonetary
    \/ MergeFrames
    \/ AssignSegment
    \/ ReturnRfm
    \/ ModellingRaised
    \/ OutputWorkbook
    \/ OutputCsv

SpecPipeline == PipelineInit /\ [][PipelineNext]_vars

-----------------------------------------------------------------------------
(* The issue classifier's category (claim C3).                             *)

CategoryOrder ==
    <<"Damaged", "Wrong Item", "Online (?)", "Wrong Entry", "Missing from order", "Mix up">>

\* The places in CategoryOrder of the categories with a keyword in the text.
MatchingCategories(text) ==
    {i \in 1..Len(CategoryOrder) :
        \E k \in 1..Len(issue_categories) :
            /\ issue_categories[k][1] = CategoryOrder[i]
            /\ StrContains(StrLower(text), issue_categories[k][2])}

MinOf(S) == CHOOSE i \in S : \A j \in S : i <= j

MaxOf(S) == CHOOSE i \in S : \A j \in S : j <= i

\* C3, as stated: the classified text has the FIRST category, in table order,
\* one of whose keywords it contains, and 'Unclassified' when it contains none.
C3_FirstMatchWins ==
    ClassifyDone =>
        cl_category = IF MatchingCategories(cl_text) = {} THEN "Unclassified"
                      ELSE CategoryOrder[MinOf(MatchingCategories(cl_text))]

\* C3, amended: the classified text has the LAST category, in table order, one
\* of whose keywords it contains, and 'Unclassified' when it contains none.
C3_LastMatchWins ==
    ClassifyDone =>
        /\ cl_flag = "True"
        /\ cl_category = IF MatchingCategories(cl_text) = {} THEN "Unclassified"
                         ELSE CategoryOrder[MaxOf(MatchingCategories(cl_text))]

\* 'wrongly' holds 'wrong' (Wrong Item) and 'wrongly' (Mix up), and ends 'Mix up'.
C3_Witness ==
    /\ ClassifyDone
    /\ cl_text = <<"w", "r", "o", "n", "g", "l", "y">>
    /\ MatchingCategories(cl_text) = {2, 6}
    /\ cl_category = "Mix up"

-----------------------------------------------------------------------------
(* The RFM scorer's scores and segments (claims C7 to C10).                *)

Returned == rfm_pc = "return"

C7_Customer(row) == row.days = 25 /\ row.orders = 2 /\ row.spent = 500

C7_Scores(row) ==
    /\ row.Recency = 4
    /\ row.Frequency = 1
    /\ row.Monetary = 1
    /\ row.RFMScore = <<"4", "1", "1">>

\* C7, as stated: the customer with 25 days, 2 orders and 500 spent is scored
\* 4, 1, 1, '411' and ends in the segment 'Small Spender'.
C7_SmallSpender ==
    Returned =>
        \A c \in DOMAIN customer_rfm :
            C7_Customer(customer_rfm[c]) =>
                /\ C7_Scores(customer_rfm[c])
                /\ customer_rfm[c].Segment = "Small Spender"

\* C7, amended: that customer is scored 4, 1, 1, '411' and ends in the segment
\* 'Recent Customers' (the Recency = 4 assignment comes after Monetary = 1).
C7_RecentCustomers ==
    Returned =>
        \A c \in DOMAIN customer_rfm :
            C7_Customer(customer_rfm[c]) =>
                /\ C7_Scores(customer_rfm[c])
                /\ customer_rfm[c].Segment = "Recent Customers"

C7_Witness ==
    /\ Returned
    /\ \E c \in DOMAIN customer_rfm : C7_Customer(customer_rfm[c])

C8_Case(row) ==
    /\ row.Recency + row.Frequency + row.Monetary \in {7, 8, 9}
    /\ row.Recency = 1

\* C8, as stated: a customer whose scores sum to 7, 8 or 9 and whose Recency is
\* 1 ends in 'Lost Customers'.
C8_LostCustomers ==
    Returned =>
        \A c \in DOMAIN customer_rfm :
            C8_Case(customer_rfm[c]) => customer_rfm[c].Segment = "Lost Customers"

\* C8, amended: a customer whose scores sum to 7, 8 or 9, whose Recency is 1 and
\* whose Frequency and Monetary are both below 4 ends in 'Lost Customers'.
C8_LostUnlessFour ==
    Returned =>
        \A c \in DOMAIN customer_rfm :
            ( /\ C8_Case(customer_rfm[c])
              /\ customer_rfm[c].Frequency < 4
              /\ customer_rfm[c].Monetary < 4 )
            => customer_rfm[c].Segment = "Lost Customers"

C8_Witness ==
    /\ Returned
    /\ \E c \in DOMAIN customer_rfm :
         /\ C8_Case(customer_rfm[c])
         /\ customer_rfm[c].Frequency < 4
         /\ customer_rfm[c].Monetary < 4
         /\ customer_rfm[c].Segment = "Lost Customers"

\* The eleven rules as the claim lists them: a, b, c.
ClaimedLabels ==
    <<"Bad Customer", "Average Customer", "Good Customer",
      "Lost Customers", "Infrequent Shopper", "Small Spender", "Worst Customers",
      "Recent Customers", "Frequent Shoppers", "Big Spenders", "Best Customers">>

ClaimedRule(k, r, f, m) ==
    CASE k = 1 -> r + f + m \in 4..6
      [] k = 2 -> r + f + m \in 7..9
      [] k = 3 -> r + f + m \in 10..13
      [] k = 4 -> r = 1
      [] k = 5 -> f = 1
      [] k = 6 -> m = 1
      [] k = 7 -> r = 1 /\ f = 1 /\ m = 1
      [] k = 8 -> r = 4
      [] k = 9 -> f = 4
      [] k = 10 -> m = 4
      [] k = 11 -> r = 4 /\ f = 4 /\ m = 4

ClaimedMatches(row) ==
    {k \in 1..Len(ClaimedLabels) : ClaimedRule(k, row.Recency, row.Frequency, row.Monetary)}

SumBucketSegments == {"Bad Customer", "Average Customer", "Good Customer"}

\* C9: every returned customer has the label of the last matching rule in the
\* order a, b, c; one that matches a rule of b or c has no sum-bucket segment.
C9_LastRuleWins ==
    Returned =>
        \A c \in DOMAIN customer_rfm :
            LET row == customer_rfm[c]
                matches == ClaimedMatches(row)
            IN  /\ row.Recency \in 1..4 /\ row.Frequency \in 1..4 /\ row.Monetary \in 1..4
                /\ matches # {} => row.Segment = ClaimedLabels[MaxOf(matches)]
                /\ (\E k \in matches : k >= 4) => row.Segment \notin SumBucketSegments

\* A customer in a sum bucket of a who also matches a rule of b or c.
C9_Witness ==
    /\ Returned
    /\ \E c \in DOMAIN customer_rfm :
         LET matches == ClaimedMatches(customer_rfm[c])
         IN  /\ \E k \in matches : k <= 3
             /\ \E k \in matches : k >= 4
             /\ customer_rfm[c].Segment = ClaimedLabels[MaxOf(matches)]

\* The intervals of the claim, written out.
RecencyOutside(d) == ~(-1 < d /\ d <= 800)

FrequencyOutside(n) == ~(-1 < n /\ n <= 300)

MonetaryOutside(t) == ~(-1 < t /\ t <= 1000000)

ExpectedRecency(d) == IF d <= 30 THEN 4 ELSE IF d <= 90 THEN 3 ELSE IF d <= 360 THEN 2 ELSE 1

ExpectedFrequency(n) == IF n <= 3 THEN 1 ELSE IF n <= 8 THEN 2 ELSE IF n <= 35 THEN 3 ELSE 4

ExpectedMonetary(t) ==
    IF t <= 1000 THEN 1 ELSE IF t <= 10000 THEN 2 ELSE IF t <= 100000 THEN 3 ELSE 4

SomeValueOutside ==
    \E c \in DOMAIN recency :
        \/ RecencyOutside(recency[c].days)
        \/ FrequencyOutside(frequency[c].orders)
        \/ MonetaryOutside(monetary[c].spent)

-----------------------------------------------------------------------------
(* The segments the scorer can end with (claims C13, C14).                 *)

ElevenSegments ==
    {"Bad Customer", "Average Customer", "Good Customer", "Lost Customers",
     "Infrequent Shopper", "Small Spender", "Worst Customers", "Recent Customers",
     "Frequent Shoppers", "Big Spenders", "Best Customers"}

ScoreSum(row) == row.Recency + row.Frequency + row.Monetary

\* C13: every returned customer, whatever the three scores in 1..4, has a
\* segment, one of the eleven named; none is left without.
C13_SegmentTotal ==
    Returned =>
        \A c \in DOMAIN customer_rfm :
            /\ customer_rfm[c].Recency \in 1..4
            /\ customer_rfm[c].Frequency \in 1..4
            /\ customer_rfm[c].Monetary \in 1..4
            /\ customer_rfm[c].Segment # NaNCategory
            /\ customer_rfm[c].Segment \in ElevenSegments

\* The customer scored '111', whose sum 3 is in no sum bucket, has the
\* segment of line 112.
C13_Witness ==
    /\ Returned
    /\ \E c \in DOMAIN customer_rfm :
         /\ customer_rfm[c].RFMScore = <<"1", "1", "1">>
         /\ ScoreSum(customer_rfm[c]) = 3
         /\ customer_rfm[c].Segment = "Worst Customers"

\* C14: no returned customer has the segment 'Good Customer', for a sum of 10
\* or more needs a score of 4; and one with 'Bad Customer' is scored 2, 2, 2.
C14_NoGoodCustomer ==
    Returned =>
        \A c \in DOMAIN customer_rfm :
            LET row == customer_rfm[c]
            IN  /\ row.Segment # "Good Customer"
                /\ ScoreSum(row) >= 10 =>
                       /\ 4 \in {row.Recency, row.Frequency, row.Monetary}
                       /\ row.Segment \in {"Recent Customers", "Frequent Shoppers",
                                           "Big Spenders", "Best Customers"}
                /\ row.Segment = "Bad Customer" <=>
                       (row.Recency = 2 /\ row.Frequency = 2 /\ row.Monetary = 2)

\* One customer in the sum bucket 10..13 and one scored 2, 2, 2.
C14_Witness ==
    /\ Returned
    /\ \E c \in DOMAIN customer_rfm :
         /\ ScoreSum(customer_rfm[c]) \in 10..12
         /\ customer_rfm[c].Segment \in ElevenSegments \ {"Good Customer"}
    /\ \E c \in DOMAIN customer_rfm :
         /\ customer_rfm[c].RFMScore = <<"2", "2", "2">>
         /\ customer_rfm[c].Segment = "Bad Customer"

-----------------------------------------------------------------------------
(* The Record Cleaner and the Description Reconciler (claims C1, C2, C4,   *)
(* C5, C6).                                                                *)

\* The first call of cleaning_main has returned its table, dataframe.
CleanReturned == pc = "done" /\ run = 1

StockCodesOf(groups) == {g.StockCode : g \in groups}

\* The canonical descriptions of a product code: those of greatest total
\* quantity, less the two excluded ones.
QuantityMaximal(groups, sc) ==
    {g.Description :
        g \in {h \in groups :
                 /\ h.StockCode = sc
                 /\ \A o \in groups : o.StockCode = sc => o.Quantity <= h.Quantity}}
    \ ({IvoryCutlery} \cup (IF sc = Code35598C THEN {Found} ELSE {}))

Tie(groups) == \E sc \in StockCodesOf(groups) : Cardinality(QuantityMaximal(groups, sc)) > 1

\* C1: when a product code of a duplicate-description group has more than one
\* canonical description - in the groups pass 1 works on (those of items) or in
\* the groups pass 2 works on (duplicates) - cleaning_main returns no table.
C1_TieAborts ==
    CleanReturned => ~Tie(DuplicatedStockCode(items)) /\ ~Tie(duplicates)

\* Of C1, the part the code keeps: with a tie in the groups pass 1 works on,
\* line 121 raises, and nothing after it runs.
Pass1TieAborts ==
    (run = 1 /\ pc \in {"issues", "pass2", "finish", "done"})
        => ~Tie(DuplicatedStockCode(items))

\* C2: a product code (other than 84968B, whose description line 207 sets) with
\* one canonical description has that description on every returned row.
C2_OneCanonical ==
    CleanReturned =>
        \A sc \in StockCodesOf(items) \ {Code84968B} :
            Cardinality(QuantityMaximal(items, sc)) = 1 =>
                \A r \in DOMAIN dataframe.rows :
                    r.StockCode = sc => r.Description \in QuantityMaximal(items, sc)

\* C4: for a product code (other than 84968B) whose one canonical description
\* is upper case and which has a 'check' description, every returned row that
\* carried the 'check' description has the canonical description, issue flag
\* false and no issue category.
C4_CheckOverwritten ==
    CleanReturned =>
        \A sc \in StockCodesOf(items) \ {Code84968B} :
            ( /\ Cardinality(QuantityMaximal(items, sc)) = 1
              /\ \A d \in QuantityMaximal(items, sc) : StrIsUpper(d)
              /\ \E g \in items : g.StockCode = sc /\ StrContains(g.Description, Check) )
            => \A r \in DOMAIN dataframe.rows :
                   (r.StockCode = sc /\ StrContains(r.OrigDescription, Check)) =>
                       /\ r.Description \in QuantityMaximal(items, sc)
                       /\ r.IssueWithItem = "False"
                       /\ r.IssueCategory = NaNCategory

Damage == <<"d", "a", "m", "a", "g", "e">>

IsDamagedIssue(r) == r.IssueWithItem = "True" /\ r.IssueCategory = "Damaged"

\* C5, as stated: every returned row whose description was not upper case and
\* contained 'damage' is flagged as an issue of category 'Damaged'.
C5_DamageFlagged ==
    CleanReturned =>
        \A r \in DOMAIN dataframe.rows :
            ( /\ ~IsNa(r.OrigDescription)
              /\ ~StrIsUpper(r.OrigDescription)
              /\ StrContains(StrLower(r.OrigDescription), Damage) )
            => IsDamagedIssue(r)

\* The rows C5 holds of: the description, after the replacements of lines
\* 181-188, is not upper case, contains 'damage' and no keyword of a later
\* category, does not contain 'check', and is a description of some duplicate
\* group left after pass 1.
C5_Case(r) ==
    LET d == NormaliseDescription(r.OrigDescription)
    IN  /\ ~IsNa(d)
        /\ ~StrIsUpper(d)
        /\ StrContains(StrLower(d), Damage)
        /\ MatchingCategories(d) = {1}
        /\ ~StrContains(d, Check)
        /\ \E g \in duplicates : g.Description = d

\* C5, amended: every returned row of C5_Case is flagged as an issue of
\* category 'Damaged'.
C5_DamageFlaggedInGroup ==
    CleanReturned => \A r \in DOMAIN dataframe.rows : C5_Case(r) => IsDamagedIssue(r)

C5_Witness ==
    /\ CleanReturned
    /\ \E r \in DOMAIN dataframe.rows : C5_Case(r) /\ IsDamagedIssue(r)

FlagColumns ==
    {"CancelledOrder", "IssueWithItem", "IssueCategory", "QuantityLeqZero",
     "NoDescriptionOrPrice", "PriceIsCredit"}

\* A row's flags, with the columns that tell the row from the others.
FlagsOf(r) ==
    [c \in FlagColumns \cup {"Invoice", "StockCode", "OrigDescription", "Quantity",
                             "Price", "Customer_ID", "InvoiceDate"} |-> r[c]]

\* C6: cleaning_main run on the table it returned completes, and returns the
\* same flags row for row.
C6_Idempotent ==
    (run = 2 /\ pc \in {"done", "raised"}) =>
        /\ pc = "done"
        /\ MapRows(dataframe.rows, FlagsOf) = MapRows(firstResult.rows, FlagsOf)

-----------------------------------------------------------------------------
(* The pipeline's tables and files (claims C11, C12).                      *)

\* C11: no step of cleaning_main changes the table main handed to it (source),
\* and no step of modelling_main changes the cleaned table (dataframe).
C11_InputsUnchanged ==
    [][ /\ main_pc = "cleaning" => source' = source
        /\ main_pc = "modelling" => dataframe' = dataframe ]_vars

ExportFiles == {SupportWorkbook, TidiedCsv}

\* C12, as stated: a file is written only after cleaning and modelling have
\* both returned.
C12_WritesAfterModelling ==
    files # {} => (pc = "done" /\ rfm_pc = "return")

\* C12, amended: the stages run in the order load, profile, clean, model,
\* output; the profiling workbook is written before cleaning starts; the two
\* output files are written only after cleaning and modelling have both
\* returned; a run that aborts has written at most the profiling workbook.
C12_OutputAfterModelling ==
    /\ main_pc = "load" => (files = {} /\ pc = "idle" /\ rfm_pc = "idle")
    /\ main_pc \in {"clean", "cleaning"} =>
          (files = {DescriptiveWorkbook} /\ rfm_pc = "idle")
    /\ main_pc = "clean" => pc = "idle"
    /\ main_pc = "modelling" => (files = {DescriptiveWorkbook} /\ pc = "done")
    /\ files \cap ExportFiles # {} =>
          /\ pc = "done"
          /\ rfm_pc = "return"
          /\ main_pc \in {"output", "done"}
          /\ DescriptiveWorkbook \in files
    /\ main_pc = "done" => files = {DescriptiveWorkbook} \cup ExportFiles
    /\ main_pc = "aborted" => files \subseteq {DescriptiveWorkbook}

\* cleaning_main raised on two top descriptions, after the profiling workbook
\* was written, and no output file is.
C12_Witness ==
    /\ main_pc = "aborted"
    /\ pc = "raised"
    /\ error = "MergeError"
    /\ files = {DescriptiveWorkbook}

=============================================================================
